---- MODULE Spec2Model ----
(***************************************************************************)
(* Image conversion module of the media toolkit (static/js/image.js):      *)
(* the bulk conversion loop (convertImage / convertBulkWithProgress), the  *)
(* user-event handlers that share its state (handleFiles, removeFile,      *)
(* selectFormat, reset) and the client-side ZIP writer                     *)
(* (createZipFromBase64Images).                                            *)
(*                                                                         *)
(* Strings are sequences of one-character strings.  Every handler runs to  *)
(* its next await as one action: JavaScript runs a task and its microtasks *)
(* to completion before it dispatches the next user event.                 *)
(***************************************************************************)
EXTENDS Integers, Sequences, FiniteSets, TLC

VARIABLES
    currentFiles,        \* let currentFiles (image.js:8)
    selectedFormat,      \* let selectedFormat (image.js:18)
    convertBtnDisabled,  \* convertBtn.disabled
    convertBtnLabel,     \* convertBtn.innerHTML, as the text it shows
    resultHidden,        \* resultContainer.classList contains 'hidden'
    fileListHidden,      \* fileListContainer.classList contains 'hidden'
    previewHidden,       \* previewContainer.classList contains 'hidden'
    rows,                \* the .file-list-item elements of fileListContainer
    header,              \* first span of .file-list-header
    download,            \* what downloadBtn.onclick serves
    resultInfo,          \* resultInfo.textContent
    toast,               \* the last toast shown
    runs,                \* the activations of convertImage
    nEvents,             \* number of user events so far
    nStarts,             \* number of convertImage activations so far
    zpc,                 \* encoder harness: "off", "input", "output", "again"
    zin,                 \* encoder harness: the images argument
    zout,                \* encoder harness: the returned blob, or the throw
    zagain,              \* encoder harness: what a second call returns
    zcalls               \* encoder harness: calls made so far

uiVars == <<currentFiles, selectedFormat, convertBtnDisabled, convertBtnLabel,
            resultHidden, fileListHidden, previewHidden, rows, header,
            download, resultInfo, toast, runs, nEvents, nStarts>>
zipVars == <<zpc, zin, zout, zagain, zcalls>>
vars == <<uiVars, zipVars>>

-----------------------------------------------------------------------------
(* Bounds *)

MaxFiles == 3     \* longest list one drop or file selection delivers
MaxEvents == 2    \* user events (drop, remove, format, reset) in a behaviour
MaxStarts == 2    \* convertImage activations in a behaviour
MaxRuns == 2      \* activations of convertImage that can be live at once
MaxEntries == 7   \* longest images list handed to the encoder harness

-----------------------------------------------------------------------------
(* Strings *)

\* s.lastIndexOf(c), 1-based; 0 when c does not occur
LastIndexOf(s, c) ==
    IF \E k \in 1..Len(s) : s[k] = c
    THEN CHOOSE k \in 1..Len(s) :
             s[k] = c /\ \A j \in (k + 1)..Len(s) : s[j] /= c
    ELSE 0

\* s.indexOf(c), 1-based; 0 when c does not occur
IndexOf(s, c) ==
    IF \E k \in 1..Len(s) : s[k] = c
    THEN CHOOSE k \in 1..Len(s) :
             s[k] = c /\ \A j \in 1..(k - 1) : s[j] /= c
    ELSE 0

\* name.split('.').pop(): the text after the last dot, the whole name
\* when it has no dot
SplitPop(name) == SubSeq(name, LastIndexOf(name, ".") + 1, Len(name))

LowerChar(c) ==
    CASE c = "A" -> "a" [] c = "B" -> "b" [] c = "C" -> "c" [] c = "E" -> "e"
      [] c = "F" -> "f" [] c = "G" -> "g" [] c = "H" -> "h" [] c = "I" -> "i"
      [] c = "J" -> "j" [] c = "M" -> "m" [] c = "N" -> "n" [] c = "P" -> "p"
      [] c = "T" -> "t" [] c = "W" -> "w" [] c = "X" -> "x"
      [] OTHER -> c

ToLowerCase(s) == [k \in 1..Len(s) |-> LowerChar(s[k])]

\* '.' + file.name.split('.').pop().toLowerCase()
ExtOf(file) == <<".">> \o ToLowerCase(SplitPop(file.name))

-----------------------------------------------------------------------------
(* Files the user can drop or pick *)

FileA == [name |-> <<"a", ".", "p", "n", "g">>, type |-> <<"image", "png">>]
FileB == [name |-> <<"b", ".", "J", "P", "G">>, type |-> <<>>]
FileC == [name |-> <<"a", ".", "g", "i", "f">>, type |-> <<"image", "gif">>]
FileX == [name |-> <<"n", ".", "t", "x", "t">>, type |-> <<"text", "plain">>]

AllFiles == {FileA, FileB, FileC, FileX}

validTypes ==
    { <<"image", "png">>, <<"image", "jpeg">>, <<"image", "webp">>,
      <<"image", "gif">>, <<"image", "bmp">>, <<"image", "tiff">>,
      <<"image", "heic">>, <<"image", "heif">> }

validExtensions ==
    { <<".", "p", "n", "g">>, <<".", "j", "p", "g">>,
      <<".", "j", "p", "e", "g">>, <<".", "w", "e", "b", "p">>,
      <<".", "g", "i", "f">>, <<".", "b", "m", "p">>,
      <<".", "t", "i", "f", "f">>, <<".", "t", "i", "f">>,
      <<".", "h", "e", "i", "c">>, <<".", "h", "e", "i", "f">> }

IsValidFile(file) == file.type \in validTypes \/ ExtOf(file) \in validExtensions

\* the order in which a drop or a file selection lists the files
FileOrder == <<FileA, FileB, FileC, FileX>>

\* the lists a drop or a file selection can deliver: up to MaxFiles
\* distinct files, in that order
FileLists ==
    { fl \in UNION { [1..n -> AllFiles] : n \in 1..MaxFiles } :
        \A p, q \in 1..Len(fl) :
            p < q => IndexOf(FileOrder, fl[p]) < IndexOf(FileOrder, fl[q]) }

RECURSIVE FilterValid(_)
\* the validFiles of handleFiles
FilterValid(files) ==
    IF files = <<>> THEN <<>>
    ELSE IF IsValidFile(Head(files))
         THEN <<Head(files)>> \o FilterValid(Tail(files))
         ELSE FilterValid(Tail(files))

JPG == <<"j", "p", "g">>
PNG == <<"p", "n", "g">>
Formats == {JPG, PNG}

\* mimeType ? mimeType.split('/')[1] : ''
CurrentFormatOf(mimeType) == IF mimeType = <<>> THEN "" ELSE mimeType[2]

\* the format autoSelectFormat passes to selectFormat
autoSelectFormat(mimeType, ext) ==
    IF ext = <<".", "h", "e", "i", "c">> \/ ext = <<".", "h", "e", "i", "f">>
    THEN PNG
    ELSE IF CurrentFormatOf(mimeType) \in {"jpeg", "jpg"} THEN PNG
    ELSE JPG

-----------------------------------------------------------------------------
(* JavaScript numbers.  TLC integers stop at 2^31 - 1, so a byte count or an *)
(* offset, which JavaScript keeps exactly up to 2^53, is a pair of digits in *)
(* radix 2^16: the number hi * 2^16 + lo.                                    *)

Radix == 2^16

Num(n) == [hi |-> n \div Radix, lo |-> n % Radix]

NAdd(a, b) ==
    LET s == a.lo + b.lo
    IN  [hi |-> a.hi + b.hi + (s \div Radix), lo |-> s % Radix]

\* a - b, for a >= b
NSub(a, b) ==
    IF a.lo >= b.lo THEN [hi |-> a.hi - b.hi, lo |-> a.lo - b.lo]
    ELSE [hi |-> a.hi - b.hi - 1, lo |-> a.lo + Radix - b.lo]

NLess(a, b) == a.hi < b.hi \/ (a.hi = b.hi /\ a.lo < b.lo)

-----------------------------------------------------------------------------
(* DataView.  A header buffer is written field by field, the fields lie   *)
(* side by side from byte 0 to the end of the fixed part and the name       *)
(* follows; the buffer is therefore the concatenation, in offset order, of  *)
(* the bytes each setUint16 / setUint32 stores and of the name bytes.       *)

\* the little-endian bytes DataView.setUint16(_, v, true) stores: v mod 2^16
setUint16(v) == <<v.lo % 256, v.lo \div 256>>

\* the little-endian bytes DataView.setUint32(_, v, true) stores: v mod 2^32
setUint32(v) ==
    <<v.lo % 256, v.lo \div 256, v.hi % 256, (v.hi \div 256) % 256>>

-----------------------------------------------------------------------------
(* TextEncoder and atob *)

AsciiChars ==
    << " ", "!", "QUOTE", "#", "$", "%", "&", "'", "(", ")", "*", "+",
       ",", "-", ".", "/", "0", "1", "2", "3", "4", "5", "6", "7",
       "8", "9", ":", ";", "<", "=", ">", "?", "@", "A", "B", "C",
       "D", "E", "F", "G", "H", "I", "J", "K", "L", "M", "N", "O",
       "P", "Q", "R", "S", "T", "U", "V", "W", "X", "Y", "Z", "[",
       "BACKSLASH", "]", "^", "_", "BACKTICK", "a", "b", "c", "d", "e", "f", "g",
       "h", "i", "j", "k", "l", "m", "n", "o", "p", "q", "r", "s",
       "t", "u", "v", "w", "x", "y", "z", "{", "|", "}", "~" >>

\* UTF-8 of one character: one byte for ASCII, two for U+00E9 (written
\* "eacute"; the double quote, backslash and backtick are written by name)
Utf8Char(c) ==
    IF c = "eacute" THEN <<195, 169>> ELSE <<31 + IndexOf(AsciiChars, c)>>

RECURSIVE TextEncode(_)
\* new TextEncoder().encode(s)
TextEncode(s) ==
    IF s = <<>> THEN <<>> ELSE Utf8Char(Head(s)) \o TextEncode(Tail(s))

Base64Alphabet ==
    << "A", "B", "C", "D", "E", "F", "G", "H", "I", "J", "K", "L", "M",
       "N", "O", "P", "Q", "R", "S", "T", "U", "V", "W", "X", "Y", "Z",
       "a", "b", "c", "d", "e", "f", "g", "h", "i", "j", "k", "l", "m",
       "n", "o", "p", "q", "r", "s", "t", "u", "v", "w", "x", "y", "z",
       "0", "1", "2", "3", "4", "5", "6", "7", "8", "9", "+", "/" >>

AsciiWhitespace == {" ", "LF", "TAB", "FF", "CR"}

RECURSIVE StripWhitespace(_)
StripWhitespace(s) ==
    IF s = <<>> THEN <<>>
    ELSE IF Head(s) \in AsciiWhitespace THEN StripWhitespace(Tail(s))
    ELSE <<Head(s)>> \o StripWhitespace(Tail(s))

\* forgiving-base64: with a length that is a multiple of 4, one or two
\* trailing '=' are dropped
StripPadding(s) ==
    IF Len(s) % 4 = 0 /\ Len(s) >= 1 /\ s[Len(s)] = "="
    THEN IF Len(s) >= 2 /\ s[Len(s) - 1] = "="
         THEN SubSeq(s, 1, Len(s) - 2)
         ELSE SubSeq(s, 1, Len(s) - 1)
    ELSE s

IsBase64Text(s) == \A k \in 1..Len(s) : IndexOf(Base64Alphabet, s[k]) > 0

SixBits(c) == IndexOf(Base64Alphabet, c) - 1

RECURSIVE DecodeSextets(_)
\* the bytes of a stripped base64 text: 4 characters give 3 bytes, a tail
\* of 3 gives 2 and a tail of 2 gives 1, the surplus bits being dropped
DecodeSextets(s) ==
    IF Len(s) < 2 THEN <<>>
    ELSE LET a == SixBits(s[1])
             b == SixBits(s[2])
             b1 == a * 4 + (b \div 16)
         IN  IF Len(s) = 2 THEN <<b1>>
             ELSE LET c == SixBits(s[3])
                      b2 == (b % 16) * 16 + (c \div 4)
                  IN  IF Len(s) = 3 THEN <<b1, b2>>
                      ELSE <<b1, b2, (c % 4) * 64 + SixBits(s[4])>>
                           \o DecodeSextets(SubSeq(s, 5, Len(s)))

\* atob of a short text: the character codes of the binary string, or the
\* InvalidCharacterError it throws
AtobText(s) ==
    LET t == StripPadding(StripWhitespace(s))
    IN  IF Len(t) % 4 = 1 \/ ~IsBase64Text(t)
        THEN [ok |-> FALSE, bytes |-> <<>>]
        ELSE [ok |-> TRUE, bytes |-> DecodeSextets(t)]

RECURSIVE Repeat(_, _)
Repeat(s, n) == IF n = 0 THEN <<>> ELSE s \o Repeat(s, n - 1)

\* A string that is too long to write out is kept as a unit and the number
\* of times it is repeated; an ordinary string has times = 1.  A byte array
\* has the same shape.
Str(s) == [unit |-> s, times |-> 1]

ByteLength(arr) == Len(arr.bytes) * arr.times

\* atob(data) followed by the copy into new Uint8Array(binaryString.length)
\* (image.js:623-627).  Whole groups of 4 alphabet characters decode group
\* by group, so a repeated unit of such groups decodes to the repeated bytes.
atob(data) ==
    IF data.times > 1 /\ Len(data.unit) % 4 = 0 /\ IsBase64Text(data.unit)
    THEN [ok |-> TRUE, bytes |-> DecodeSextets(data.unit), times |-> data.times]
    ELSE LET r == AtobText(Repeat(data.unit, data.times))
         IN  [ok |-> r.ok, bytes |-> r.bytes, times |-> 1]

-----------------------------------------------------------------------------
(* createZipFromBase64Images (image.js:606-713) *)

LOCAL_FILE_HEADER_SIG == Num(67324752)     \* 0x04034b50
CENTRAL_DIR_HEADER_SIG == Num(33639248)    \* 0x02014b50
END_OF_CENTRAL_DIR_SIG == Num(101010256)   \* 0x06054b50

\* a Uint8Array over a header buffer, as an element of zipParts
Part(buf) == [bytes |-> buf, times |-> 1]

\* LocalHeader with the number of earlier calls in the mod time field
LocalHeaderStamped(filenameBytes, bytes) ==
       setUint32(LOCAL_FILE_HEADER_SIG)
    \o setUint16(Num(20))
    \o setUint16(Num(0))
    \o setUint16(Num(0))
    \o setUint16(Num(zcalls))
    \o setUint16(Num(0))
    \o setUint32(Num(0))
    \o setUint32(Num(ByteLength(bytes)))
    \o setUint32(Num(ByteLength(bytes)))
    \o setUint16(Num(Len(filenameBytes)))
    \o setUint16(Num(0))
    \o filenameBytes

\* the local file header of one image (image.js:633-649)
LocalHeader(filenameBytes, bytes) ==
       setUint32(LOCAL_FILE_HEADER_SIG)       \*  0 signature
    \o setUint16(Num(20))                     \*  4 version needed
    \o setUint16(Num(0))                      \*  6 flags
    \o setUint16(Num(0))                      \*  8 compression (store)
    \o setUint16(Num(0))                      \* 10 mod time
    \o setUint16(Num(0))                      \* 12 mod date
    \o setUint32(Num(0))                      \* 14 crc32
    \o setUint32(Num(ByteLength(bytes)))      \* 18 compressed size
    \o setUint32(Num(ByteLength(bytes)))      \* 22 uncompressed size
    \o setUint16(Num(Len(filenameBytes)))     \* 26 filename length
    \o setUint16(Num(0))                      \* 28 extra field length
    \o filenameBytes                          \* 30 filename

\* CentralEntry recording the size of the header and the bytes together
CentralEntryWithHeader(offset, filenameBytes, bytes) ==
    [offset |-> offset, filenameBytes |-> filenameBytes,
     size |-> 30 + Len(filenameBytes) + ByteLength(bytes)]

\* the entry pushed to centralDirectory (image.js:652-656)
CentralEntry(offset, filenameBytes, bytes) ==
    [offset |-> offset, filenameBytes |-> filenameBytes,
     size |-> ByteLength(bytes)]

\* offset += localHeader.byteLength + bytes.length (image.js:661)
OffsetAfterEntry(offset, localHeader, bytes) ==
    NAdd(offset, NAdd(Num(Len(localHeader)), Num(ByteLength(bytes))))

\* the end of one pass of the loop over images (image.js:651-661):
\* the entry is recorded, the header and the bytes are pushed and the
\* offset moves on
PushEntry(st, filenameBytes, localHeader, bytes) ==
    [offset |-> OffsetAfterEntry(st.offset, localHeader, bytes),
     centralDirectory |->
         Append(st.centralDirectory,
                CentralEntry(st.offset, filenameBytes, bytes)),
     zipParts |-> st.zipParts \o <<Part(localHeader), bytes>>,
     thrown |-> FALSE]

\* one pass of the loop, from the encoded name on (image.js:630-661)
AddEntry(st, filenameBytes, bytes) ==
    PushEntry(st, filenameBytes, LocalHeader(filenameBytes, bytes), bytes)

RECURSIVE LocalLoop(_, _)
RECURSIVE LocalPass(_, _, _)

\* one pass of the loop over images, decoded being what atob returned or
\* threw (image.js:622-661); a throw ends the function
LocalPass(images, st, decoded) ==
    IF ~decoded.ok THEN [st EXCEPT !.thrown = TRUE]
    ELSE LocalLoop(Tail(images),
                   AddEntry(st, TextEncode(Head(images).filename),
                            [bytes |-> decoded.bytes,
                             times |-> decoded.times]))

\* for (const img of images) { ... } (image.js:621-662)
LocalLoop(images, st) ==
    IF images = <<>> THEN st
    ELSE LocalPass(images, st, atob(Head(images).data))

\* CentralHeader naming the compression method 8 (deflate)
CentralHeaderDeflated(entry) ==
       setUint32(CENTRAL_DIR_HEADER_SIG)
    \o setUint16(Num(20))
    \o setUint16(Num(20))
    \o setUint16(Num(0))
    \o setUint16(Num(8))
    \o setUint16(Num(0))
    \o setUint16(Num(0))
    \o setUint32(Num(0))
    \o setUint32(Num(entry.size))
    \o setUint32(Num(entry.size))
    \o setUint16(Num(Len(entry.filenameBytes)))
    \o setUint16(Num(0))
    \o setUint16(Num(0))
    \o setUint16(Num(0))
    \o setUint16(Num(0))
    \o setUint32(Num(0))
    \o setUint32(entry.offset)
    \o entry.filenameBytes

\* the central directory header of one entry (image.js:668-689)
CentralHeader(entry) ==
       setUint32(CENTRAL_DIR_HEADER_SIG)            \*  0 signature
    \o setUint16(Num(20))                           \*  4 version made by
    \o setUint16(Num(20))                           \*  6 version needed
    \o setUint16(Num(0))                            \*  8 flags
    \o setUint16(Num(0))                            \* 10 compression
    \o setUint16(Num(0))                            \* 12 mod time
    \o setUint16(Num(0))                            \* 14 mod date
    \o setUint32(Num(0))                            \* 16 crc32
    \o setUint32(Num(entry.size))                   \* 20 compressed size
    \o setUint32(Num(entry.size))                   \* 24 uncompressed size
    \o setUint16(Num(Len(entry.filenameBytes)))     \* 28 filename length
    \o setUint16(Num(0))                            \* 30 extra field length
    \o setUint16(Num(0))                            \* 32 comment length
    \o setUint16(Num(0))                            \* 34 disk number start
    \o setUint16(Num(0))                            \* 36 internal attrs
    \o setUint32(Num(0))                            \* 38 external attrs
    \o setUint32(entry.offset)                      \* 42 relative offset
    \o entry.filenameBytes                          \* 46 filename

\* PushCentral without offset += centralHeader.byteLength
PushCentralUncounted(st, centralHeader) ==
    [st EXCEPT !.zipParts = Append(@, Part(centralHeader))]

\* the end of one pass of the loop over centralDirectory (image.js:691-692)
PushCentral(st, centralHeader) ==
    [st EXCEPT !.zipParts = Append(@, Part(centralHeader)),
               !.offset = NAdd(@, Num(Len(centralHeader)))]

RECURSIVE CentralLoopReversed(_, _)
\* CentralLoop walking centralDirectory from its last entry to its first
CentralLoopReversed(entries, st) ==
    IF entries = <<>> THEN st
    ELSE CentralLoopReversed(SubSeq(entries, 1, Len(entries) - 1),
                             PushCentral(st,
                                 CentralHeader(entries[Len(entries)])))

RECURSIVE CentralLoop(_, _)
\* for (const entry of centralDirectory) { ... } (image.js:667-693)
CentralLoop(entries, st) ==
    IF entries = <<>> THEN st
    ELSE CentralLoop(Tail(entries),
                     PushCentral(st, CentralHeader(Head(entries))))

\* const centralDirSize = offset - centralDirOffset (image.js:695)
CentralDirSize(offset, centralDirOffset) == NSub(offset, centralDirOffset)

\* the end of central directory record (image.js:698-708)
EndRecord(count, centralDirSize, centralDirOffset) ==
       setUint32(END_OF_CENTRAL_DIR_SIG)      \*  0 signature
    \o setUint16(Num(0))                      \*  4 disk number
    \o setUint16(Num(0))                      \*  6 disk with central dir
    \o setUint16(Num(count))                  \*  8 entries on disk
    \o setUint16(Num(count))                  \* 10 total entries
    \o setUint32(centralDirSize)              \* 12 central dir size
    \o setUint32(centralDirOffset)            \* 16 central dir offset
    \o setUint16(Num(0))                      \* 20 comment length

\* the end of the function, from the end record on (image.js:698-712):
\* st1 is the state after the first loop, st2 after the second
ZipBlob(st1, st2) ==
    [ok |-> TRUE,
     parts |-> Append(st2.zipParts,
                      Part(EndRecord(Len(st1.centralDirectory),
                                     CentralDirSize(st2.offset, st1.offset),
                                     st1.offset))),
     type |-> "application/zip"]

\* the function after its first loop (image.js:664-712); centralDirOffset
\* is the offset that loop leaves
ZipFromEntries(st1) ==
    IF st1.thrown
    THEN [ok |-> FALSE, parts |-> <<>>, type |-> "InvalidCharacterError"]
    ELSE ZipBlob(st1, CentralLoop(st1.centralDirectory, st1))

\* the value of offset after the second loop (image.js:692)
ZipFromEntriesOffset(st1) == CentralLoop(st1.centralDirectory, st1).offset

\* The Blob the function resolves with (ok), or the exception it rejects
\* with: the only statement that can throw is atob.
createZipFromBase64Images(images) ==
    ZipFromEntries(LocalLoop(images,
        [offset |-> Num(0), centralDirectory |-> <<>>, zipParts |-> <<>>,
         thrown |-> FALSE]))

-----------------------------------------------------------------------------
(* The conversion service behind /api/image/convert-single.  Its code is    *)
(* not part of the sources at hand: a success answers with the output name  *)
(* (the stem of the uploaded name and the requested format) and the         *)
(* converted bytes as base64 text.                                          *)

StemOf(name) ==
    IF LastIndexOf(name, ".") = 0 THEN name
    ELSE SubSeq(name, 1, LastIndexOf(name, ".") - 1)

\* the converted bytes of each file, as base64 text
DataOf(file) ==
    IF file = FileA THEN <<"A", "Q", "=", "=">>        \* 01
    ELSE IF file = FileB THEN <<"A", "g", "M", "=">>   \* 02 03
    ELSE <<"/", "w", "=", "=">>                        \* ff

ConvertSingleResponse(req) ==
    [filename |-> StemOf(req.file.name) \o <<".">> \o req.output_format,
     data |-> Str(DataOf(req.file))]

\* an answer with status 200 whose data is no base64 text
UndecodableResponse(req) ==
    [filename |-> ConvertSingleResponse(req).filename,
     data |-> Str(<<"A", "*">>)]

-----------------------------------------------------------------------------
(* The page *)

NoFile == [name |-> <<>>, type |-> <<>>]
NoRequest == [file |-> NoFile, output_format |-> <<>>]
NoBlob == [ok |-> FALSE, parts |-> <<>>, type |-> ""]
NoDownload == [kind |-> "none", filename |-> <<>>, blob |-> NoBlob]
NoLabel == [kind |-> "convert", current |-> 0, total |-> 0, plural |-> FALSE]
NoToast == [message |-> "", type |-> "", count |-> 0]
NoResultInfo == [kind |-> "none", converted |-> 0, format |-> <<>>, failed |-> 0]
NoHeader == [kind |-> "none", done |-> 0, total |-> 0]

\* One activation of convertImage: where it is suspended and its locals.
\* The last five fields record what the activation did and the code does
\* not read them: the selection it started with, the requests it issued,
\* how the service settled each pass (index, request, "ok" or "error"),
\* the calls of createZipFromBase64Images and the way it ended.
IdleRun ==
    [pc |-> "idle", bulk |-> FALSE, i |-> 0, file |-> NoFile,
     convertedImages |-> <<>>, errorCount |-> 0, req |-> NoRequest,
     started |-> <<>>, issued |-> <<>>, log |-> <<>>, zipCalls |-> 0,
     outcome |-> "none"]

RunIds == 1..MaxRuns

Live(run) == run.pc \notin {"idle", "done"}

\* a request to /api/image/convert-single is in flight: fetch was called
\* and the response, body included, has not been consumed yet
InFlight(run) == run.pc \in {"fetch", "json", "errjson"}

Init ==
    /\ currentFiles = <<>>
    /\ selectedFormat = JPG
    /\ convertBtnDisabled = TRUE
    /\ convertBtnLabel = NoLabel
    /\ resultHidden = TRUE
    /\ fileListHidden = TRUE
    /\ previewHidden = TRUE
    /\ rows = <<>>
    /\ header = NoHeader
    /\ download = NoDownload
    /\ resultInfo = NoResultInfo
    /\ toast = NoToast
    /\ runs = [r \in RunIds |-> IdleRun]
    /\ nEvents = 0
    /\ nStarts = 0
    /\ zpc = "off"
    /\ zin = <<>>
    /\ zout = NoBlob
    /\ zagain = NoBlob
    /\ zcalls = 0

\* the rows and the header showFileList(files, statuses) renders
\* (image.js:177-262); statuses = <<>> stands for the null default
showFileList(files, statuses) ==
    [rows |-> [k \in 1..Len(files) |->
                 [name |-> files[k].name,
                  status |-> IF statuses = <<>> THEN "pending"
                             ELSE statuses[k]]],
     header |-> IF statuses = <<>>
                THEN [kind |-> "selected", done |-> 0, total |-> Len(files)]
                ELSE [kind |-> "converted",
                      done |-> Cardinality({k \in 1..Len(statuses) :
                                               statuses[k] = "done"}),
                      total |-> Len(files)]]

\* updateFileStatus(index, status) on the list dom (image.js:267-313);
\* index is 0-based, nFiles is currentFiles.length
updateFileStatus(dom, index, status, nFiles) ==
    IF index + 1 > Len(dom.rows) THEN dom
    ELSE LET rows1 == [dom.rows EXCEPT ![index + 1].status = status]
         IN  [rows |-> rows1,
              header |-> [kind |-> "converted",
                          done |-> Cardinality({k \in 1..Len(rows1) :
                                                  rows1[k].status = "done"}),
                          total |-> nFiles]]

\* files.splice(index, 1), index 0-based
Splice(files, index) ==
    IF index + 1 > Len(files) THEN files
    ELSE SubSeq(files, 1, index) \o SubSeq(files, index + 2, Len(files))

\* handleFiles hiding the result container before it looks at the files
handleFilesResetFirst(files) ==
    /\ nEvents < MaxEvents
    /\ nEvents' = nEvents + 1
    /\ LET validFiles == FilterValid(files)
       IN  IF validFiles = <<>>
           THEN /\ toast' = [message |-> "Please select valid image files",
                             type |-> "error", count |-> 0]
                /\ resultHidden' = TRUE
                /\ UNCHANGED <<currentFiles, selectedFormat,
                               convertBtnDisabled, fileListHidden,
                               previewHidden, rows, header>>
           ELSE /\ currentFiles' = validFiles
                /\ IF Len(validFiles) = 1
                   THEN /\ fileListHidden' = TRUE
                        /\ previewHidden' = FALSE
                        /\ UNCHANGED <<rows, header>>
                   ELSE /\ previewHidden' = TRUE
                        /\ fileListHidden' = FALSE
                        /\ rows' = showFileList(validFiles, <<>>).rows
                        /\ header' = showFileList(validFiles, <<>>).header
                /\ resultHidden' = TRUE
                /\ convertBtnDisabled' = FALSE
                /\ selectedFormat' = autoSelectFormat(validFiles[1].type,
                                                      ExtOf(validFiles[1]))
                /\ UNCHANGED toast
    /\ UNCHANGED <<convertBtnLabel, download, resultInfo, runs, nStarts>>
    /\ UNCHANGED zipVars

\* handleFiles(files), reached from a drop or a file selection
\* (image.js:80-133)
handleFiles(files) ==
    /\ nEvents < MaxEvents
    /\ nEvents' = nEvents + 1
    /\ LET validFiles == FilterValid(files)
       IN  IF validFiles = <<>>
           THEN /\ toast' = [message |-> "Please select valid image files",
                             type |-> "error", count |-> 0]
                /\ UNCHANGED <<currentFiles, selectedFormat,
                               convertBtnDisabled, resultHidden,
                               fileListHidden, previewHidden, rows, header>>
           ELSE /\ currentFiles' = validFiles
                /\ IF Len(validFiles) = 1
                   THEN /\ fileListHidden' = TRUE
                        /\ previewHidden' = FALSE
                        /\ UNCHANGED <<rows, header>>
                   ELSE /\ previewHidden' = TRUE
                        /\ fileListHidden' = FALSE
                        /\ rows' = showFileList(validFiles, <<>>).rows
                        /\ header' = showFileList(validFiles, <<>>).header
                /\ resultHidden' = TRUE
                /\ convertBtnDisabled' = FALSE
                /\ selectedFormat' = autoSelectFormat(validFiles[1].type,
                                                      ExtOf(validFiles[1]))
                /\ UNCHANGED toast
    /\ UNCHANGED <<convertBtnLabel, download, resultInfo, runs, nStarts>>
    /\ UNCHANGED zipVars

\* reset() (image.js:718-726), exported as window.resetImageConverter
reset ==
    /\ nEvents < MaxEvents
    /\ nEvents' = nEvents + 1
    /\ currentFiles' = <<>>
    /\ previewHidden' = TRUE
    /\ fileListHidden' = TRUE
    /\ resultHidden' = TRUE
    /\ convertBtnDisabled' = TRUE
    /\ UNCHANGED <<selectedFormat, convertBtnLabel, rows, header, download,
                   resultInfo, toast, runs, nStarts>>
    /\ UNCHANGED zipVars

\* removeFile(index) (image.js:318-328), reached from the remove button of
\* row index: the button exists in a row rendered as pending and can be
\* clicked while the list is shown
removeFile(index) ==
    /\ nEvents < MaxEvents
    /\ ~fileListHidden
    /\ index + 1 <= Len(rows)
    /\ rows[index + 1].status = "pending"
    /\ nEvents' = nEvents + 1
    /\ LET files1 == Splice(currentFiles, index)
       IN  /\ currentFiles' = files1
           /\ IF files1 = <<>>
              THEN /\ previewHidden' = TRUE
                   /\ fileListHidden' = TRUE
                   /\ resultHidden' = TRUE
                   /\ convertBtnDisabled' = TRUE
                   /\ UNCHANGED <<rows, header>>
              ELSE IF Len(files1) = 1
              THEN /\ fileListHidden' = TRUE
                   /\ previewHidden' = FALSE
                   /\ UNCHANGED <<rows, header, resultHidden,
                                  convertBtnDisabled>>
              ELSE /\ previewHidden' = TRUE
                   /\ fileListHidden' = FALSE
                   /\ rows' = showFileList(files1, <<>>).rows
                   /\ header' = showFileList(files1, <<>>).header
                   /\ UNCHANGED <<resultHidden, convertBtnDisabled>>
    /\ UNCHANGED <<selectedFormat, convertBtnLabel, download, resultInfo,
                   toast, runs, nStarts>>
    /\ UNCHANGED zipVars

\* selectFormat(format), reached from a format button (image.js:354-365)
selectFormat(format) ==
    /\ nEvents < MaxEvents
    /\ nEvents' = nEvents + 1
    /\ selectedFormat' = format
    /\ UNCHANGED <<currentFiles, convertBtnDisabled, convertBtnLabel,
                   resultHidden, fileListHidden, previewHidden, rows, header,
                   download, resultInfo, toast, runs, nStarts>>
    /\ UNCHANGED zipVars

-----------------------------------------------------------------------------
(* convertImage and convertBulkWithProgress (image.js:403-601) *)

UpperChar(c) ==
    CASE c = "j" -> "J" [] c = "p" -> "P" [] c = "g" -> "G" [] c = "n" -> "N"
      [] c = "w" -> "W" [] c = "e" -> "E" [] c = "b" -> "B" [] c = "i" -> "I"
      [] c = "f" -> "F" [] c = "m" -> "M" [] c = "t" -> "T"
      [] OTHER -> c

ToUpperCase(s) == [k \in 1..Len(s) |-> UpperChar(s[k])]

\* name.replace(/\.[^/.]+$/, ''): the name without its last extension
ReplaceExt(name) ==
    LET p == LastIndexOf(name, ".")
    IN  IF p = 0 \/ p = Len(name)
           \/ \E k \in (p + 1)..Len(name) : name[k] = "/"
        THEN name
        ELSE SubSeq(name, 1, p - 1)

\* 'converted_images.zip'
ZipDownloadName ==
    <<"c", "o", "n", "v", "e", "r", "t", "e", "d", "_",
      "i", "m", "a", "g", "e", "s", ".", "z", "i", "p">>

\* the button text the finally block restores (image.js:492-500)
ConvertLabel ==
    [kind |-> "convert", current |-> 0, total |-> 0,
     plural |-> Len(currentFiles) > 1]

\* updateButtonProgress(current, total) (image.js:516-525)
ProgressLabel(current, total) ==
    [kind |-> "progress", current |-> current, total |-> total,
     plural |-> FALSE]

Dom == [rows |-> rows, header |-> header]

\* the slot a new activation of convertImage takes
FreeRun(r) ==
    /\ ~Live(runs[r])
    /\ \A q \in RunIds : q < r => Live(runs[q])

\* the next pass of the bulk loop up to its fetch (image.js:528-544);
\* dom1, images1 and errors1 are the list, convertedImages and errorCount
\* the pass before leaves
BulkNextPass(r, i1, req, dom1, images1, errors1, result) ==
    /\ rows' = updateFileStatus(dom1, i1, "converting",
                                Len(currentFiles)).rows
    /\ header' = updateFileStatus(dom1, i1, "converting",
                                  Len(currentFiles)).header
    /\ convertBtnLabel' = ProgressLabel(i1 + 1, Len(currentFiles))
    /\ runs' = [runs EXCEPT ![r] =
           [@ EXCEPT !.pc = "fetch", !.i = i1, !.file = req.file,
                     !.convertedImages = images1, !.errorCount = errors1,
                     !.req = req, !.issued = Append(@, req),
                     !.log = Append(@, [i |-> runs[r].i, req |-> runs[r].req,
                                        result |-> result])]]
    /\ UNCHANGED <<convertBtnDisabled, resultHidden, download, resultInfo,
                   toast>>

\* BulkFinish without the test convertedImages.length > 0 (image.js:565):
\* the archive is built and offered whatever the loop collected
BulkFinishUnguarded(r, i1, dom1, images1, errors1, result, zipBlob) ==
    /\ rows' = dom1.rows
    /\ header' = dom1.header
    /\ download' = [kind |-> "zip", filename |-> ZipDownloadName,
                    blob |-> createZipFromBase64Images(images1)]
    /\ resultInfo' = [kind |-> "bulk", converted |-> Len(images1),
                      format |-> ToUpperCase(selectedFormat),
                      failed |-> errors1]
    /\ resultHidden' = FALSE
    /\ toast' = [message |-> "images converted successfully!",
                 type |-> "success", count |-> Len(images1)]
    /\ convertBtnDisabled' = FALSE
    /\ convertBtnLabel' = ConvertLabel
    /\ runs' = [runs EXCEPT ![r] =
           [@ EXCEPT !.pc = "done", !.i = i1,
                     !.convertedImages = images1, !.errorCount = errors1,
                     !.req = NoRequest,
                     !.log = Append(@, [i |-> runs[r].i, req |-> runs[r].req,
                                        result |-> result]),
                     !.zipCalls = 1, !.outcome = "zip"]]

\* convertBulkWithProgress after its loop (image.js:564-600) and the catch
\* and finally blocks of convertImage (image.js:488-501); zipBlob is what
\* createZipFromBase64Images makes of images1
BulkFinish(r, i1, dom1, images1, errors1, result, zipBlob) ==
    /\ rows' = dom1.rows
    /\ header' = dom1.header
    /\ IF images1 = <<>>
       THEN /\ toast' = [message |-> "No images could be converted",
                         type |-> "error", count |-> 0]
            /\ UNCHANGED <<download, resultInfo, resultHidden>>
       ELSE IF zipBlob.ok
       THEN /\ download' = [kind |-> "zip", filename |-> ZipDownloadName,
                            blob |-> zipBlob]
            /\ resultInfo' = [kind |-> "bulk", converted |-> Len(images1),
                              format |-> ToUpperCase(selectedFormat),
                              failed |-> errors1]
            /\ resultHidden' = FALSE
            /\ toast' = [message |-> "images converted successfully!",
                         type |-> "success", count |-> Len(images1)]
       ELSE /\ toast' = [message |-> zipBlob.type, type |-> "error",
                         count |-> 0]
            /\ UNCHANGED <<download, resultInfo, resultHidden>>
    /\ convertBtnDisabled' = FALSE
    /\ convertBtnLabel' = ConvertLabel
    /\ runs' = [runs EXCEPT ![r] =
           [@ EXCEPT !.pc = "done", !.i = i1,
                     !.convertedImages = images1, !.errorCount = errors1,
                     !.req = NoRequest,
                     !.log = Append(@, [i |-> runs[r].i, req |-> runs[r].req,
                                        result |-> result]),
                     !.zipCalls = IF images1 = <<>> THEN 0 ELSE 1,
                     !.outcome = IF images1 = <<>> THEN "none converted"
                                 ELSE IF zipBlob.ok THEN "zip"
                                 ELSE "exception"]]

\* The bulk loop from the end of the pass over item i (image.js:528-601):
\* i++ and the loop test, then either the next pass or the rest of the
\* function.  createZipFromBase64Images is called with a non-empty
\* convertedImages only.
BulkContinue(r, dom1, images1, errors1, result) ==
    IF runs[r].i + 1 < Len(currentFiles)
    THEN BulkNextPass(r, runs[r].i + 1,
                      [file |-> currentFiles[runs[r].i + 2],
                       output_format |-> selectedFormat],
                      dom1, images1, errors1, result)
    ELSE BulkFinish(r, runs[r].i + 1, dom1, images1, errors1, result,
                    IF images1 = <<>> THEN NoBlob
                    ELSE createZipFromBase64Images(images1))

\* BulkItemFailed without updateFileStatus(i, 'error') (image.js:559): the
\* failure is counted and the loop goes on with the row left as it was
BulkItemFailedUnmarked(r) ==
    BulkContinue(r, Dom, runs[r].convertedImages, runs[r].errorCount + 1,
                 "error")

\* the catch block of the loop (image.js:557-561), then the loop goes on
BulkItemFailed(r) ==
    BulkContinue(r,
                 updateFileStatus(Dom, runs[r].i, "error", Len(currentFiles)),
                 runs[r].convertedImages, runs[r].errorCount + 1, "error")

\* convertImage(), the click handler of the convert button; a disabled
\* button dispatches no click (image.js:403-433, 507-544)
convertImage(r) ==
    /\ ~convertBtnDisabled
    /\ FreeRun(r)
    /\ IF currentFiles = <<>>
       THEN /\ toast' = [message |-> "Please select an image first",
                         type |-> "error", count |-> 0]
            /\ UNCHANGED <<convertBtnDisabled, convertBtnLabel, rows, header,
                           fileListHidden, previewHidden, runs, nStarts>>
       ELSE /\ nStarts < MaxStarts
            /\ nStarts' = nStarts + 1
            /\ convertBtnDisabled' = TRUE
            /\ LET req == [file |-> currentFiles[1],
                           output_format |-> selectedFormat]
                   run0 == [IdleRun EXCEPT !.file = currentFiles[1],
                                           !.req = req,
                                           !.started = currentFiles,
                                           !.issued = <<req>>]
               IN  IF Len(currentFiles) > 1
                   THEN LET dom0 == showFileList(currentFiles,
                                        [k \in 1..Len(currentFiles) |->
                                            "pending"])
                            dom1 == updateFileStatus(dom0, 0, "converting",
                                                     Len(currentFiles))
                        IN  /\ previewHidden' = TRUE
                            /\ fileListHidden' = FALSE
                            /\ rows' = dom1.rows
                            /\ header' = dom1.header
                            /\ convertBtnLabel' =
                                   ProgressLabel(1, Len(currentFiles))
                            /\ runs' = [runs EXCEPT ![r] =
                                   [run0 EXCEPT !.pc = "fetch",
                                                !.bulk = TRUE]]
                   ELSE /\ convertBtnLabel' =
                               [kind |-> "converting", current |-> 0,
                                total |-> 0, plural |-> FALSE]
                        /\ runs' = [runs EXCEPT ![r] =
                               [run0 EXCEPT !.pc = "sfetch"]]
                        /\ UNCHANGED <<rows, header, fileListHidden,
                                       previewHidden>>
            /\ UNCHANGED toast
    /\ UNCHANGED <<currentFiles, selectedFormat, resultHidden, download,
                   resultInfo, nEvents>>
    /\ UNCHANGED zipVars

\* the promise of fetch('/api/image/convert-single') settles
\* (image.js:541-549)
FetchSettles(r, outcome) ==
    /\ runs[r].pc = "fetch"
    /\ CASE outcome = "ok" ->
              /\ runs' = [runs EXCEPT ![r].pc = "json"]
              /\ UNCHANGED <<rows, header, convertBtnLabel, convertBtnDisabled,
                             resultHidden, download, resultInfo, toast>>
         [] outcome = "not ok" ->
              /\ runs' = [runs EXCEPT ![r].pc = "errjson"]
              /\ UNCHANGED <<rows, header, convertBtnLabel, convertBtnDisabled,
                             resultHidden, download, resultInfo, toast>>
         [] outcome = "rejected" -> BulkItemFailed(r)
    /\ UNCHANGED <<currentFiles, selectedFormat, fileListHidden, previewHidden,
                   nEvents, nStarts>>
    /\ UNCHANGED zipVars

\* the promise of response.json() of an OK response settles
\* (image.js:551-555): parsed, the result is pushed and the item is done
ResultSettles(r, parsed) ==
    /\ runs[r].pc = "json"
    /\ IF parsed
       THEN BulkContinue(r,
                updateFileStatus(Dom, runs[r].i, "done", Len(currentFiles)),
                Append(runs[r].convertedImages,
                       ConvertSingleResponse(runs[r].req)),
                runs[r].errorCount, "ok")
       ELSE BulkItemFailed(r)
    /\ UNCHANGED <<currentFiles, selectedFormat, fileListHidden, previewHidden,
                   nEvents, nStarts>>
    /\ UNCHANGED zipVars

\* the promise of response.json() of an OK response settles with a body
\* whose data atob will reject (image.js:551-555): nothing looks at the
\* data here, the result is pushed and the item is done
UndecodableResultSettles(r) ==
    /\ runs[r].pc = "json"
    /\ BulkContinue(r,
           updateFileStatus(Dom, runs[r].i, "done", Len(currentFiles)),
           Append(runs[r].convertedImages, UndecodableResponse(runs[r].req)),
           runs[r].errorCount, "ok")
    /\ UNCHANGED <<currentFiles, selectedFormat, fileListHidden, previewHidden,
                   nEvents, nStarts>>
    /\ UNCHANGED zipVars

\* the promise of response.json() of a non-OK response settles
\* (image.js:546-549): the item fails whether or not the body parses
ErrorBodySettles(r) ==
    /\ runs[r].pc = "errjson"
    /\ BulkItemFailed(r)
    /\ UNCHANGED <<currentFiles, selectedFormat, fileListHidden, previewHidden,
                   nEvents, nStarts>>
    /\ UNCHANGED zipVars

-----------------------------------------------------------------------------
(* The single-file branch of convertImage (image.js:418-501) *)

\* the catch and finally blocks of convertImage (image.js:488-501)
SingleThrows(r, message) ==
    /\ toast' = [message |-> message, type |-> "error", count |-> 0]
    /\ convertBtnDisabled' = FALSE
    /\ convertBtnLabel' = ConvertLabel
    /\ runs' = [runs EXCEPT ![r] = [@ EXCEPT !.pc = "done", !.req = NoRequest,
                                             !.outcome = "exception"]]
    /\ UNCHANGED <<download, resultInfo, resultHidden>>

\* the promise of fetch('/api/image/convert') settles (image.js:433-441)
SingleFetchSettles(r, outcome) ==
    /\ runs[r].pc = "sfetch"
    /\ CASE outcome = "ok" ->
              /\ runs' = [runs EXCEPT ![r].pc = "sblob"]
              /\ UNCHANGED <<convertBtnLabel, convertBtnDisabled, resultHidden,
                             download, resultInfo, toast>>
         [] outcome = "not ok" ->
              /\ runs' = [runs EXCEPT ![r].pc = "serrjson"]
              /\ UNCHANGED <<convertBtnLabel, convertBtnDisabled, resultHidden,
                             download, resultInfo, toast>>
         [] outcome = "rejected" -> SingleThrows(r, "Failed to fetch")
    /\ UNCHANGED <<currentFiles, selectedFormat, fileListHidden, previewHidden,
                   rows, header, nEvents, nStarts>>
    /\ UNCHANGED zipVars

\* the promise of response.blob() settles (image.js:444-485);
\* currentFiles[0].name throws a TypeError when the selection is empty
SingleBlobSettles(r, read) ==
    /\ runs[r].pc = "sblob"
    /\ IF ~read THEN SingleThrows(r, "Failed to fetch")
       ELSE IF currentFiles = <<>> THEN SingleThrows(r, "TypeError")
       ELSE /\ download' =
                   [kind |-> "single",
                    filename |-> ReplaceExt(currentFiles[1].name)
                                 \o <<".">> \o selectedFormat,
                    blob |-> [ok |-> TRUE, parts |-> <<>>, type |-> "image"]]
            /\ resultInfo' = [kind |-> "single", converted |-> 1,
                              format |-> <<>>, failed |-> 0]
            /\ resultHidden' = FALSE
            /\ toast' = [message |-> "Image converted successfully!",
                         type |-> "success", count |-> 0]
            /\ convertBtnDisabled' = FALSE
            /\ convertBtnLabel' = ConvertLabel
            /\ runs' = [runs EXCEPT ![r] =
                   [@ EXCEPT !.pc = "done", !.req = NoRequest,
                             !.outcome = "single"]]
    /\ UNCHANGED <<currentFiles, selectedFormat, fileListHidden, previewHidden,
                   rows, header, nEvents, nStarts>>
    /\ UNCHANGED zipVars

\* the promise of response.json() of a non-OK response settles
\* (image.js:438-441)
SingleErrorBodySettles(r) ==
    /\ runs[r].pc = "serrjson"
    /\ SingleThrows(r, "Conversion failed")
    /\ UNCHANGED <<currentFiles, selectedFormat, fileListHidden, previewHidden,
                   rows, header, nEvents, nStarts>>
    /\ UNCHANGED zipVars

-----------------------------------------------------------------------------
(* The page as a state machine *)

FetchOutcomes == {"ok", "not ok", "rejected"}

Next ==
    \/ \E files \in FileLists : handleFiles(files)
    \/ \E index \in 0..(MaxFiles - 1) : removeFile(index)
    \/ \E format \in Formats : selectFormat(format)
    \/ reset
    \/ \E r \in RunIds : convertImage(r)
    \/ \E r \in RunIds, outcome \in FetchOutcomes : FetchSettles(r, outcome)
    \/ \E r \in RunIds, parsed \in BOOLEAN : ResultSettles(r, parsed)
    \/ \E r \in RunIds : UndecodableResultSettles(r)
    \/ \E r \in RunIds : ErrorBodySettles(r)
    \/ \E r \in RunIds, outcome \in FetchOutcomes :
           SingleFetchSettles(r, outcome)
    \/ \E r \in RunIds, read \in BOOLEAN : SingleBlobSettles(r, read)
    \/ \E r \in RunIds : SingleErrorBodySettles(r)

Spec == Init /\ [][Next]_vars

-----------------------------------------------------------------------------
(* createZipFromBase64Images on its own: every images list up to          *)
(* MaxEntries long over four images, one of them as large as a string     *)
(* can make it (2^30 - 4 base64 characters), one that does not decode.     *)

EmptyImage == [filename |-> <<"a">>, data |-> Str(<<>>)]
SmallImage == [filename |-> <<"eacute", "b">>,
               data |-> Str(<<"A", "g", "M", "=">>)]
LargeImage == [filename |-> <<"a">>,
               data |-> [unit |-> <<"A", "A", "A", "A">>,
                         times |-> 2^28 - 1]]

\* an image whose data is no base64 text
BadImage == [filename |-> <<"b">>, data |-> Str(<<"A", "*">>)]

ZipImages == {EmptyImage, SmallImage, LargeImage, BadImage}

ZipInputs == UNION { [1..n -> ZipImages] : n \in 1..MaxEntries }

ZipInit ==
    /\ currentFiles = <<>>
    /\ selectedFormat = JPG
    /\ convertBtnDisabled = TRUE
    /\ convertBtnLabel = NoLabel
    /\ resultHidden = TRUE
    /\ fileListHidden = TRUE
    /\ previewHidden = TRUE
    /\ rows = <<>>
    /\ header = NoHeader
    /\ download = NoDownload
    /\ resultInfo = NoResultInfo
    /\ toast = NoToast
    /\ runs = [r \in RunIds |-> IdleRun]
    /\ nEvents = 0
    /\ nStarts = 0
    /\ zpc = "input"
    /\ zin \in ZipInputs
    /\ zout = NoBlob
    /\ zagain = NoBlob
    /\ zcalls = 0

\* a call of createZipFromBase64Images(zin)
ZipEncode ==
    /\ zpc = "input"
    /\ zout' = createZipFromBase64Images(zin)
    /\ zpc' = "output"
    /\ zcalls' = zcalls + 1
    /\ UNCHANGED <<zin, zagain>>
    /\ UNCHANGED uiVars

\* a second call with the same argument, later
ZipEncodeAgain ==
    /\ zpc = "output"
    /\ zagain' = createZipFromBase64Images(zin)
    /\ zpc' = "again"
    /\ zcalls' = zcalls + 1
    /\ UNCHANGED <<zin, zout>>
    /\ UNCHANGED uiVars

ZipNext == ZipEncode \/ ZipEncodeAgain

ZipSpec == ZipInit /\ [][ZipNext]_vars

-----------------------------------------------------------------------------
(* Properties of the bulk run, checked under Spec *)

\* activation r ends its bulk run in this step
FinishesBulk(r) ==
    /\ runs[r].bulk
    /\ Live(runs[r])
    /\ runs'[r].pc = "done"

\* the pass of activation r over its current item settles in this step
Settles(r) ==
    /\ runs[r].bulk
    /\ Live(runs[r])
    /\ Len(runs'[r].log) = Len(runs[r].log) + 1

\* the conversion of the current item of activation r fails in this step
Fails(r) ==
    /\ Settles(r)
    /\ runs'[r].log[Len(runs'[r].log)].result = "error"

\* the passes of a run the service answered with a result
OkPasses(run) == SelectSeq(run.log, LAMBDA e : e.result = "ok")

ErrorPasses(run) == SelectSeq(run.log, LAMBDA e : e.result = "error")

\* the place of file in files, 0 when it is not there
PositionIn(files, file) ==
    IF \E k \in 1..Len(files) : files[k] = file
    THEN CHOOSE k \in 1..Len(files) : files[k] = file
    ELSE 0

\* the number of rows of the list shown with the status
StatusCount(listRows, status) ==
    Cardinality({k \in 1..Len(listRows) : listRows[k].status = status})

Rank(status) ==
    CASE status = "pending" -> 0
      [] status = "converting" -> 1
      [] OTHER -> 2

BulkRunning == \E r \in RunIds : runs[r].bulk /\ Live(runs[r])

\* C1: when a bulk run ends, the number of results plus the number of
\* failed items equals the number of items the run was started with, and
\* every one of those items is shown with the final status done or error.
C1_RunAccountsForEveryItem ==
    [][\A r \in RunIds : FinishesBulk(r) =>
          /\ Len(runs'[r].convertedImages) + runs'[r].errorCount
                 = Len(runs'[r].started)
          /\ \A k \in 1..Len(runs'[r].started) :
                 /\ k <= Len(rows')
                 /\ rows'[k].status \in {"done", "error"}]_vars

\* C2: an error while item i is converted marks exactly item i as failed,
\* adds one to the failure count and nothing to the results, and the loop
\* goes on to item i+1 of the items the run started with; it changes the
\* outcome of no other item.
C2_FailureStaysWithItsItem ==
    [][\A r \in RunIds : Fails(r) =>
          /\ runs[r].i + 1 <= Len(rows')
          /\ rows'[runs[r].i + 1].status = "error"
          /\ rows'[runs[r].i + 1].name = runs[r].file.name
          /\ \A k \in 1..Len(rows') :
                 (k # runs[r].i + 1 /\ rows'[k].status = "error")
                     => (k <= Len(rows) /\ rows[k].status = "error")
          /\ \A k \in 1..Len(rows) :
                 (k # runs[r].i + 1 /\ Rank(rows[k].status) = 2)
                     => (k <= Len(rows') /\ rows'[k] = rows[k])
          /\ runs'[r].errorCount = runs[r].errorCount + 1
          /\ runs'[r].convertedImages = runs[r].convertedImages
          /\ runs[r].i + 1 < Len(runs[r].started) =>
                 /\ runs'[r].pc = "fetch"
                 /\ runs'[r].i = runs[r].i + 1
                 /\ runs'[r].file = runs[r].started[runs[r].i + 2]]_vars

\* C3: the results of a finished bulk run are exactly the conversions of
\* the items that succeeded, and the items they were made from are a
\* subsequence of the items the run started with, in their order.
C3_ResultsInInputOrder ==
    [][\A r \in RunIds : FinishesBulk(r) =>
          /\ Len(runs'[r].convertedImages) = Len(OkPasses(runs'[r]))
          /\ \A j \in 1..Len(OkPasses(runs'[r])) :
                 /\ runs'[r].convertedImages[j].filename
                        = ConvertSingleResponse(
                              OkPasses(runs'[r])[j].req).filename
                 /\ PositionIn(runs'[r].started,
                               OkPasses(runs'[r])[j].req.file) > 0
          /\ \A j \in 1..(Len(OkPasses(runs'[r])) - 1) :
                 PositionIn(runs'[r].started, OkPasses(runs'[r])[j].req.file)
                   < PositionIn(runs'[r].started,
                                OkPasses(runs'[r])[j + 1].req.file)]_vars

\* C4: whatever the user does and whenever, at most one request to
\* /api/image/convert-single is in flight.
C4_OneRequestInFlight ==
    Cardinality({r \in RunIds : InFlight(runs[r])}) <= 1

\* C5: while a bulk run is under way no operation of the user (dropping
\* files, removing a file, resetting) changes the list the run iterates
\* or the statuses shown.
C5_RunOwnsListAndStatuses ==
    [][(BulkRunning /\ nEvents' # nEvents) =>
          (currentFiles' = currentFiles /\ rows' = rows)]_vars

\* C6: during a bulk run the status of an item only moves forward, from
\* pending to converting to done or error: it is never pending again,
\* converting is entered at most once, done and error are final.
C6_StatusMovesForward ==
    [][BulkRunning =>
          \A k \in 1..Len(rows) :
              /\ k <= Len(rows')
              /\ Rank(rows'[k].status) >= Rank(rows[k].status)
              /\ Rank(rows[k].status) = 2
                     => rows'[k].status = rows[k].status]_vars

\* the archive read back: parts 2k-1 and 2k are the local header and the
\* content of entry k, the central headers follow and the end record is last
EntryCount(blob) == (Len(blob.parts) - 1) \div 3

LocalPartOf(blob, k) == blob.parts[2 * k - 1].bytes

CentralPartOf(blob, k) == blob.parts[2 * EntryCount(blob) + k].bytes

EndPartOf(blob) == blob.parts[Len(blob.parts)].bytes

\* the little-endian numbers at byte pos (counted from 0) of buf
Uint16At(buf, pos) == buf[pos + 1] + 256 * buf[pos + 2]

Uint32At(buf, pos) ==
    [hi |-> Uint16At(buf, pos + 2), lo |-> Uint16At(buf, pos)]

\* the name an entry carries in its local header
EntryNameBytes(blob, k) ==
    SubSeq(LocalPartOf(blob, k), 31, 30 + Uint16At(LocalPartOf(blob, k), 26))

\* C7: when no item of a bulk run is converted, createZipFromBase64Images
\* is not called, no archive is offered and the run reports the error
\* 'No images could be converted'.
C7_AllFailedMakesNoArchive ==
    [][\A r \in RunIds :
          (FinishesBulk(r) /\ OkPasses(runs'[r]) = <<>>) =>
              /\ runs'[r].zipCalls = 0
              /\ runs'[r].outcome = "none converted"
              /\ download' = download
              /\ resultInfo' = resultInfo
              /\ resultHidden' = resultHidden
              /\ toast'.message = "No images could be converted"
              /\ toast'.type = "error"]_vars

\* a bulk run over three items has ended with every item failed: no
\* archive, and the error is shown
C7_Witness ==
    \E r \in RunIds :
        /\ runs[r].bulk
        /\ runs[r].pc = "done"
        /\ Len(runs[r].started) = 3
        /\ Len(ErrorPasses(runs[r])) = 3
        /\ runs[r].zipCalls = 0
        /\ download = NoDownload
        /\ toast.message = "No images could be converted"

\* C8: a bulk run with at least one success and at least one failure
\* offers an archive with exactly one entry for each item that succeeded
\* and none for a failed one, and its summary gives as converted the number
\* of items shown done and as failed the number of items shown error.
C8_MixedRunArchiveAndSummary ==
    [][\A r \in RunIds :
          (/\ FinishesBulk(r)
           /\ OkPasses(runs'[r]) # <<>>
           /\ ErrorPasses(runs'[r]) # <<>>) =>
              /\ runs'[r].zipCalls = 1
              /\ download'.kind = "zip"
              /\ download'.blob.ok
              /\ EntryCount(download'.blob) = Len(OkPasses(runs'[r]))
              /\ \A j \in 1..Len(OkPasses(runs'[r])) :
                     EntryNameBytes(download'.blob, j)
                         = TextEncode(ConvertSingleResponse(
                               OkPasses(runs'[r])[j].req).filename)
              /\ resultInfo'.kind = "bulk"
              /\ resultInfo'.converted = StatusCount(rows', "done")
              /\ resultInfo'.failed = StatusCount(rows', "error")]_vars

-----------------------------------------------------------------------------
(* Properties of the archive, checked under ZipSpec *)

RECURSIVE PartStart(_, _)
\* the byte position in the Blob at which its part p begins: the bytes of
\* all parts before it
PartStart(blob, p) ==
    IF p = 1 THEN Num(0)
    ELSE NAdd(PartStart(blob, p - 1), Num(ByteLength(blob.parts[p - 1])))

\* the offset the central directory records for entry k
RecordedOffset(blob, k) == Uint32At(CentralPartOf(blob, k), 42)

RECURSIVE IndexLength(_)
\* the sum over the entries of 46 + the length of the encoded name
IndexLength(images) ==
    IF images = <<>> THEN 0
    ELSE 46 + Len(TextEncode(Head(images).filename))
            + IndexLength(Tail(images))

Encoded == zpc = "output" /\ zout.ok

\* C9: for every image list, the offset the central directory records for
\* entry k is the byte position of the signature of entry k's local header
\* in the output; the offsets start at 0, increase strictly and each is the
\* number of bytes emitted before that header.
C9_RecordedOffsetsAreHeaderPositions ==
    Encoded =>
        \A k \in 1..Len(zin) :
            /\ RecordedOffset(zout, k) = PartStart(zout, 2 * k - 1)
            /\ SubSeq(LocalPartOf(zout, k), 1, 4)
                   = setUint32(LOCAL_FILE_HEADER_SIG)
            /\ k = 1 => RecordedOffset(zout, k) = Num(0)
            /\ k > 1 => NLess(RecordedOffset(zout, k - 1),
                              RecordedOffset(zout, k))

\* C10: in the end record both count fields are the number of entries, the
\* index start is the position right after the content of the last entry,
\* and the index length is the sum over the entries of 46 + name length.
C10_EndRecordDescribesIndex ==
    Encoded =>
        /\ Uint16At(EndPartOf(zout), 8) = Len(zin)
        /\ Uint16At(EndPartOf(zout), 10) = Len(zin)
        /\ Uint32At(EndPartOf(zout), 16) = PartStart(zout, 2 * Len(zin) + 1)
        /\ Uint32At(EndPartOf(zout), 12) = Num(IndexLength(zin))

-----------------------------------------------------------------------------
(* CRC-32 as the ZIP format defines it (reflected polynomial 0xEDB88320,   *)
(* initial value and final complement 0xFFFFFFFF), on 32-bit values kept   *)
(* as two 16-bit halves.                                                   *)

RECURSIVE Xor16(_, _, _)
\* the exclusive or of the low n bits of a and b
Xor16(a, b, n) ==
    IF n = 0 THEN 0
    ELSE ((a + b) % 2) + 2 * Xor16(a \div 2, b \div 2, n - 1)

Xor32(a, b) == [hi |-> Xor16(a.hi, b.hi, 16), lo |-> Xor16(a.lo, b.lo, 16)]

ShiftRight1(a) ==
    [hi |-> a.hi \div 2, lo |-> (a.lo \div 2) + (a.hi % 2) * (Radix \div 2)]

CrcPolynomial == [hi |-> 60856, lo |-> 33568]      \* 0xEDB88320

AllOnes32 == [hi |-> Radix - 1, lo |-> Radix - 1]  \* 0xFFFFFFFF

RECURSIVE CrcBits(_, _)
\* n steps of the bitwise division
CrcBits(crc, n) ==
    IF n = 0 THEN crc
    ELSE CrcBits(IF crc.lo % 2 = 1
                 THEN Xor32(ShiftRight1(crc), CrcPolynomial)
                 ELSE ShiftRight1(crc),
                 n - 1)

RECURSIVE CrcBytes(_, _)
CrcBytes(crc, buf) ==
    IF buf = <<>> THEN crc
    ELSE CrcBytes(CrcBits(Xor32(crc, [hi |-> 0, lo |-> Head(buf)]), 8),
                  Tail(buf))

\* the CRC-32 of a byte sequence
Crc32(buf) == Xor32(CrcBytes(AllOnes32, buf), AllOnes32)

\* the content stored for entry k
ContentPartOf(blob, k) == blob.parts[2 * k]

\* C11: for every entry, the checksum field of its local header and of its
\* index record is the CRC-32 of the bytes stored for it.  (Checked for the
\* entries whose content is written out byte by byte; a content kept as a
\* repeated unit is left out, which only weakens the statement.)
C11_ChecksumIsCrc32 ==
    Encoded =>
        \A k \in 1..EntryCount(zout) :
            ContentPartOf(zout, k).times = 1 =>
                /\ Uint32At(LocalPartOf(zout, k), 14)
                       = Crc32(ContentPartOf(zout, k).bytes)
                /\ Uint32At(CentralPartOf(zout, k), 16)
                       = Crc32(ContentPartOf(zout, k).bytes)

-----------------------------------------------------------------------------
(* A reader of the ZIP format: the end record at the end of the buffer,    *)
(* then the index records from the recorded index start, then the local    *)
(* header each of them points at.  No content of the archives built here   *)
(* holds the byte 0x50, so a signature is found only where a header part   *)
(* begins: a read at any other position fails.                              *)

RECURSIVE PartStartsFrom(_, _, _)
PartStartsFrom(parts, pos, acc) ==
    IF parts = <<>> THEN Append(acc, pos)
    ELSE PartStartsFrom(Tail(parts), NAdd(pos, Num(ByteLength(Head(parts)))),
                        Append(acc, pos))

\* the byte positions at which the parts of the Blob begin, and after the
\* last of them the number of bytes of the Blob
PartStarts(blob) == PartStartsFrom(blob.parts, Num(0), <<>>)

\* the non-empty part that begins at byte position pos, 0 when there is none
PartAt(blob, starts, pos) ==
    IF \E p \in 1..Len(blob.parts) :
           starts[p] = pos /\ ByteLength(blob.parts[p]) > 0
    THEN CHOOSE p \in 1..Len(blob.parts) :
           starts[p] = pos /\ ByteLength(blob.parts[p]) > 0
    ELSE 0

HeaderOfPart(blob, p) ==
    IF p = 0 \/ blob.parts[p].times # 1 THEN <<>> ELSE blob.parts[p].bytes

\* the header bytes at pos, <<>> when no header begins there
HeaderAt(blob, starts, pos) == HeaderOfPart(blob, PartAt(blob, starts, pos))

NoContent == [bytes |-> <<>>, times |-> 1]

ContentOfPart(blob, p, size) ==
    IF p = 0 \/ Num(ByteLength(blob.parts[p])) # size
    THEN [found |-> FALSE, content |-> NoContent]
    ELSE [found |-> TRUE, content |-> blob.parts[p]]

\* the size bytes of content at pos: found is FALSE when they are not there
ContentAt(blob, starts, pos, size) ==
    IF size = Num(0) THEN [found |-> TRUE, content |-> NoContent]
    ELSE ContentOfPart(blob, PartAt(blob, starts, pos), size)

\* the end record: the last 22 bytes (an archive without comment)
ReadEnd(blob, starts) ==
    IF NLess(starts[Len(starts)], Num(22)) THEN <<>>
    ELSE HeaderAt(blob, starts, NSub(starts[Len(starts)], Num(22)))

EndIsValid(end) ==
    /\ Len(end) = 22
    /\ SubSeq(end, 1, 4) = <<80, 75, 5, 6>>
    /\ Uint16At(end, 4) = 0
    /\ Uint16At(end, 6) = 0
    /\ Uint16At(end, 8) = Uint16At(end, 10)
    /\ Uint16At(end, 20) = 0

CentralIsValid(rec) ==
    /\ Len(rec) >= 46
    /\ SubSeq(rec, 1, 4) = <<80, 75, 1, 2>>
    /\ Len(rec) = 46 + Uint16At(rec, 28) + Uint16At(rec, 30)
                     + Uint16At(rec, 32)

\* the local header agrees with the index record that points at it
LocalIsValid(loc, rec) ==
    /\ Len(loc) >= 30
    /\ SubSeq(loc, 1, 4) = <<80, 75, 3, 4>>
    /\ Len(loc) = 30 + Uint16At(loc, 26) + Uint16At(loc, 28)
    /\ Uint16At(loc, 8) = Uint16At(rec, 10)
    /\ Uint32At(loc, 14) = Uint32At(rec, 16)
    /\ Uint32At(loc, 18) = Uint32At(rec, 20)
    /\ Uint32At(loc, 22) = Uint32At(rec, 24)
    /\ SubSeq(loc, 31, 30 + Uint16At(loc, 26))
           = SubSeq(rec, 47, 46 + Uint16At(rec, 28))

\* the checksum test of the reader; the checksum of a content kept as a
\* repeated unit is not computed and passes
ChecksumMatches(content, crc) ==
    content.times > 1 \/ crc = Crc32(content.bytes)

\* the entry of index record rec, given its local header and its content
EntryOf(rec, loc, found, checksums) ==
    [read |-> /\ LocalIsValid(loc, rec)
              /\ Uint32At(rec, 20) = Uint32At(rec, 24)
              /\ found.found
              /\ checksums =>
                     ChecksumMatches(found.content, Uint32At(rec, 16)),
     name |-> SubSeq(rec, 47, 46 + Uint16At(rec, 28)),
     method |-> Uint16At(rec, 10),
     content |-> found.content]

\* the content follows the local header loc that rec points at
ReadContent(blob, starts, rec, loc, checksums) ==
    EntryOf(rec, loc,
            ContentAt(blob, starts,
                      NAdd(Uint32At(rec, 42), Num(Len(loc))),
                      Uint32At(rec, 20)),
            checksums)

\* the entry an index record describes: its name, its method and its
\* content; read is FALSE when the reader rejects it
ReadEntry(blob, starts, rec, checksums) ==
    ReadContent(blob, starts, rec,
                HeaderAt(blob, starts, Uint32At(rec, 42)), checksums)

RECURSIVE ReadIndex(_, _, _, _, _, _)
RECURSIVE ReadRecord(_, _, _, _, _, _, _)
RECURSIVE KeepEntry(_, _, _, _, _, _, _, _)

\* the entries of the n index records from pos on; ok is FALSE when a
\* record or its entry is rejected; last is the position after them
ReadIndex(blob, starts, pos, n, checksums, acc) ==
    IF n = 0 THEN [ok |-> TRUE, entries |-> acc, last |-> pos]
    ELSE ReadRecord(blob, starts, pos, n, checksums, acc,
                    HeaderAt(blob, starts, pos))

ReadRecord(blob, starts, pos, n, checksums, acc, rec) ==
    IF ~CentralIsValid(rec)
    THEN [ok |-> FALSE, entries |-> <<>>, last |-> pos]
    ELSE KeepEntry(blob, starts, pos, n, checksums, acc, rec,
                   ReadEntry(blob, starts, rec, checksums))

KeepEntry(blob, starts, pos, n, checksums, acc, rec, entry) ==
    IF ~entry.read
    THEN [ok |-> FALSE, entries |-> <<>>, last |-> pos]
    ELSE ReadIndex(blob, starts, NAdd(pos, Num(Len(rec))), n - 1, checksums,
                   Append(acc, [name |-> entry.name, method |-> entry.method,
                                content |-> entry.content]))

\* the index the end record end describes
ReadFromEnd(blob, starts, end, checksums) ==
    IF ~EndIsValid(end) THEN [ok |-> FALSE, entries |-> <<>>, last |-> Num(0)]
    ELSE ReadIndex(blob, starts, Uint32At(end, 16), Uint16At(end, 8),
                   checksums, <<>>)

\* the index must end where the end record says
IndexEndsRight(end, index) ==
    IF index.ok /\ index.last = NAdd(Uint32At(end, 16), Uint32At(end, 12))
    THEN [ok |-> TRUE, entries |-> index.entries]
    ELSE [ok |-> FALSE, entries |-> <<>>]

ReadWithEnd(blob, starts, end, checksums) ==
    IndexEndsRight(end, ReadFromEnd(blob, starts, end, checksums))

ReadWithStarts(blob, starts, checksums) ==
    ReadWithEnd(blob, starts, ReadEnd(blob, starts), checksums)

\* the archive as the reader sees it; checksums tells whether it verifies
\* the checksum of each entry
ReadArchive(blob, checksums) ==
    ReadWithStarts(blob, PartStarts(blob), checksums)

\* the entries images stand for: the encoded name and the decoded bytes,
\* stored
StoredEntries(images) ==
    [k \in 1..Len(images) |->
        [name |-> TextEncode(images[k].filename),
         method |-> 0,
         content |-> [bytes |-> atob(images[k].data).bytes,
                      times |-> atob(images[k].data).times]]]

\* C12: for every list of entries, a reader of the format that walks the
\* end record, the index records and the local headers, checking sizes and
\* checksums, gets from the buffer the same entries: as many, with the
\* same names and contents, in the same order, all stored.
C12_RoundTrip ==
    Encoded =>
        /\ ReadArchive(zout, TRUE).ok
        /\ ReadArchive(zout, TRUE).entries = StoredEntries(zin)

Decodable(images) == \A k \in 1..Len(images) : atob(images[k].data).ok

\* the number of content bytes of an image
ContentSize(image) ==
    Len(atob(image.data).bytes) * atob(image.data).times

RECURSIVE TrueOffset(_, _)
\* the byte position at which the local header of entry k has to begin:
\* 30 + name + content for every entry before it
TrueOffset(images, k) ==
    IF k = 1 THEN Num(0)
    ELSE NAdd(TrueOffset(images, k - 1),
              NAdd(Num(30 + Len(TextEncode(images[k - 1].filename))),
                   Num(ContentSize(images[k - 1]))))

Fits32(n) == n.hi < Radix

Fits16(n) == n < Radix

\* every value the fixed-width fields have to hold is in their range
Representable(images) ==
    /\ Fits16(Len(images))
    /\ \A k \in 1..Len(images) :
           /\ Fits32(Num(ContentSize(images[k])))
           /\ Fits32(TrueOffset(images, k))
           /\ Fits16(Len(TextEncode(images[k].filename)))

\* C14: when an entry cannot be decoded, or a content size or local-header
\* offset is 2^32 or more, or a name length or the entry count is 2^16 or
\* more, createZipFromBase64Images fails with an error and returns no
\* buffer; it never returns a buffer with wrapped or truncated fields.
C14_UnrepresentableIsRefused ==
    (zpc = "output" /\ (~Decodable(zin) \/ ~Representable(zin)))
        => (~zout.ok /\ zout.parts = <<>>)

\* the name an index record carries
IndexNameBytes(blob, k) ==
    SubSeq(CentralPartOf(blob, k), 47,
           46 + Uint16At(CentralPartOf(blob, k), 28))

C16_EntryNamesDistinct ==
    (download.kind = "zip" /\ download.blob.ok) =>
        \A j, k \in 1..EntryCount(download.blob) :
            j # k => EntryNameBytes(download.blob, j)
                         # EntryNameBytes(download.blob, k)

-----------------------------------------------------------------------------
(* The page when every request resolves *)

\* the request or the response body activation r waits for settles
RequestResolves(r) ==
    \/ \E outcome \in FetchOutcomes : FetchSettles(r, outcome)
    \/ \E parsed \in BOOLEAN : ResultSettles(r, parsed)
    \/ UndecodableResultSettles(r)
    \/ ErrorBodySettles(r)

\* Every request resolves: weak fairness of RequestResolves(r), written out
\* as "infinitely often not enabled or infinitely often taken".  The action
\* has no guard but the place of the activation, so it is enabled exactly
\* when a request of r is in flight.
FairSpec ==
    Spec /\ \A r \in RunIds :
                \/ []<>~InFlight(runs[r])
                \/ []<><<RequestResolves(r)>>_vars

\* the files of the requests a run issued, in the order of issue
IssuedFiles(run) == [k \in 1..Len(run.issued) |-> run.issued[k].file]

\* C17: if every conversion request resolves, a bulk run that has started
\* ends, and when it ends it has issued exactly one conversion request for
\* each item of the list it was started with: it is not cut short.
C17_RunCompletesOverAllItems ==
    /\ \A r \in RunIds :
           (runs[r].bulk /\ Live(runs[r])) ~> (runs[r].pc = "done")
    /\ [][\A r \in RunIds :
              FinishesBulk(r) => IssuedFiles(runs'[r]) = runs'[r].started]_vars

\* the item of run r whose pass settles in this step, counted from 0
SettledIndex(r) == runs'[r].log[Len(runs'[r].log)].i

\* the number of items of a run that have reached done or error
CompletedCount(run) == Len(OkPasses(run)) + Len(ErrorPasses(run))

\* C18: when the pass over an item of a bulk run settles, the list shows
\* that item as done or error and the header shows the progress
\* (completed, total) with completed the number of items of the run that
\* have reached done or error and total the number of items the run was
\* started with; the completed count shown never decreases during a run.
C18_ProgressCountsCompletedItems ==
    [][/\ \A r \in RunIds : Settles(r) =>
              /\ SettledIndex(r) < Len(rows')
              /\ rows'[SettledIndex(r) + 1].status \in {"done", "error"}
              /\ header'.kind = "converted"
              /\ header'.done = CompletedCount(runs'[r])
              /\ header'.total = Len(runs'[r].started)
       /\ (BulkRunning /\ header.kind = "converted")
              => (header'.kind = "converted" /\ header'.done >= header.done)
      ]_vars

\* activation r issues a conversion request of its bulk run in this step
IssuesRequest(r) ==
    /\ runs'[r].bulk
    /\ Len(runs'[r].issued) = Len(runs[r].issued) + 1

\* C19: within a bulk run a request is issued for an item index greater
\* than that of the request before, and only once the request before has
\* resolved, as a result or as a failure, and the row of its item shows
\* done or error.
C19_RequestsOneAfterAnother ==
    [][\A r \in RunIds : (IssuesRequest(r) /\ runs[r].issued # <<>>) =>
          /\ runs'[r].i > runs[r].i
          /\ InFlight(runs[r])
          /\ Len(runs'[r].log) = Len(runs[r].issued)
          /\ Len(runs'[r].log) = Len(runs[r].log) + 1
          /\ SettledIndex(r) = runs[r].i
          /\ runs'[r].log[Len(runs'[r].log)].result \in {"ok", "error"}
          /\ SettledIndex(r) < Len(rows')
          /\ rows'[SettledIndex(r) + 1].status \in {"done", "error"}]_vars

\* a bulk run waits for its third request, after one result and one failure
C19_Witness ==
    \E r \in RunIds :
        /\ runs[r].bulk
        /\ runs[r].pc = "fetch"
        /\ Len(runs[r].issued) = 3
        /\ Len(OkPasses(runs[r])) = 1
        /\ Len(ErrorPasses(runs[r])) = 1

\* activation r calls createZipFromBase64Images in this step
CallsZip(r) ==
    /\ runs[r].bulk
    /\ runs'[r].zipCalls > runs[r].zipCalls

\* the files of the passes of a run that have settled, in order
SettledFiles(run) == [k \in 1..Len(run.log) |-> run.log[k].req.file]

\* C20: a bulk run calls createZipFromBase64Images at most once, and only
\* when its loop has ended: no request of the run is in flight, every request
\* it issued has settled and every item of the list it was started with has
\* reached done or error; no result is added to the run after the call.
C20_ZipOnceAfterTheLoop ==
    [][\A r \in RunIds :
          /\ runs'[r].zipCalls <= 1
          /\ CallsZip(r) =>
                /\ runs[r].zipCalls = 0
                /\ runs'[r].pc = "done"
                /\ ~InFlight(runs'[r])
                /\ Len(runs'[r].log) = Len(runs'[r].issued)
                /\ \A k \in 1..Len(runs'[r].log) :
                       runs'[r].log[k].result \in {"ok", "error"}
                /\ SettledFiles(runs'[r]) = runs'[r].started
          /\ (runs[r].zipCalls = 1 /\ runs'[r].zipCalls = 1)
                => runs'[r].convertedImages = runs[r].convertedImages
      ]_vars

\* the request of run r whose pass settles in this step
SettledRequest(r) == runs'[r].log[Len(runs'[r].log)].req

\* row number index (counted from 0) of the list shows the file
RowShows(listRows, index, file) ==
    /\ index < Len(listRows)
    /\ listRows[index + 1].name = file.name

\* C21: every status update a bulk run issues for the conversion of a file
\* lands on the row that shows that file: converting when the request is
\* issued, done or error when it settles, also when the list was changed or
\* rendered again in between.
C21_StatusLandsOnItsFile ==
    [][\A r \in RunIds :
          /\ IssuesRequest(r) =>
                /\ RowShows(rows', runs'[r].i, runs'[r].req.file)
                /\ rows'[runs'[r].i + 1].status = "converting"
          /\ Settles(r) =>
                /\ RowShows(rows', SettledIndex(r), SettledRequest(r).file)
                /\ rows'[SettledIndex(r) + 1].status \in {"done", "error"}
      ]_vars

-----------------------------------------------------------------------------
(* More properties of createZipFromBase64Images, checked under ZipSpec *)

\* the bytes of a header buffer from byte pos (counted from 0) to its end
BytesFrom(buf, pos) == SubSeq(buf, pos + 1, Len(buf))

ZeroFields16(buf, positions) == \A pos \in positions : Uint16At(buf, pos) = 0

\* C23: in every archive the fixed fields hold their fixed values.  Local
\* header: flags (6), compression method (8), modification time (10) and
\* date (12), extra-field length (28).  Index record: flags (8), method
\* (10), time (12), date (14), extra-field length (30), comment length (32),
\* disk number (34), internal (36) and external (38) attributes.  Trailer:
\* the two disk numbers (4, 6) and the comment length (20).  The signatures
\* of the three kinds of record are pairwise different.
C23_FixedFieldsAreFixed ==
    Encoded =>
        /\ \A k \in 1..EntryCount(zout) :
               /\ ZeroFields16(LocalPartOf(zout, k), {6, 8, 10, 12, 28})
               /\ ZeroFields16(CentralPartOf(zout, k),
                               {8, 10, 12, 14, 30, 32, 34, 36, 38, 40})
               /\ Uint32At(LocalPartOf(zout, k), 0)
                      # Uint32At(CentralPartOf(zout, k), 0)
               /\ Uint32At(LocalPartOf(zout, k), 0)
                      # Uint32At(EndPartOf(zout), 0)
               /\ Uint32At(CentralPartOf(zout, k), 0)
                      # Uint32At(EndPartOf(zout), 0)
        /\ ZeroFields16(EndPartOf(zout), {4, 6, 20})

\* an archive of two entries, the first of them empty, has been built
C23_Witness ==
    /\ Encoded
    /\ zin = <<EmptyImage, SmallImage>>
    /\ EntryCount(zout) = 2

\* the value of the running cursor offset when the function returns
\* (image.js:619, 661, 692)
FinalOffset(images) ==
    ZipFromEntriesOffset(LocalLoop(images,
        [offset |-> Num(0), centralDirectory |-> <<>>, zipParts |-> <<>>,
         thrown |-> FALSE]))

\* the number of bytes of the Blob: the bytes of all its parts
BlobSize(blob) == PartStart(blob, Len(blob.parts) + 1)

\* C24: the buffer returned is the local header and the content of every
\* entry in order, then the index record of every entry in order, then one
\* trailer, and nothing else; its length is the sum of 30 + n + s over the
\* entries (n name bytes, s content bytes) plus the sum of 46 + n plus 22,
\* and the running cursor ends at that length less 22.
C24_BufferIsTheRecordsInOrder ==
    Encoded =>
        /\ Len(zout.parts) = 3 * Len(zin) + 1
        /\ \A k \in 1..Len(zin) :
               /\ SubSeq(LocalPartOf(zout, k), 1, 4)
                      = setUint32(LOCAL_FILE_HEADER_SIG)
               /\ Len(LocalPartOf(zout, k))
                      = 30 + Len(TextEncode(zin[k].filename))
               /\ BytesFrom(LocalPartOf(zout, k), 30)
                      = TextEncode(zin[k].filename)
               /\ ContentPartOf(zout, k) = StoredEntries(zin)[k].content
               /\ SubSeq(CentralPartOf(zout, k), 1, 4)
                      = setUint32(CENTRAL_DIR_HEADER_SIG)
               /\ Len(CentralPartOf(zout, k))
                      = 46 + Len(TextEncode(zin[k].filename))
               /\ BytesFrom(CentralPartOf(zout, k), 46)
                      = TextEncode(zin[k].filename)
        /\ SubSeq(EndPartOf(zout), 1, 4) = setUint32(END_OF_CENTRAL_DIR_SIG)
        /\ Len(EndPartOf(zout)) = 22
        /\ BlobSize(zout)
               = NAdd(TrueOffset(zin, Len(zin) + 1),
                      Num(IndexLength(zin) + 22))
        /\ NAdd(FinalOffset(zin), Num(22)) = BlobSize(zout)

\* an archive of more than 4 GiB, of six large entries and a small one,
\* has been built
C24_Witness ==
    /\ Encoded
    /\ Len(zin) = 7
    /\ \A k \in 1..6 : zin[k] = LargeImage
    /\ zin[7] = SmallImage
    /\ ~Fits32(BlobSize(zout))

-----------------------------------------------------------------------------
(* More properties of the page, checked under Spec *)

\* the output format selected when the run started: that of its first request
FormatAtStart(run) == run.issued[1].output_format

\* C25: every request of a bulk run carries the output format that was
\* selected when the run started, and the summary of the run names that
\* format, also when the format selection changes during the run.  (The
\* quality is read from the slider at the same place as the format and is
\* left out, which only weakens the statement.)
C25_OneFormatPerRun ==
    [][\A r \in RunIds : runs'[r].bulk =>
          /\ \A k \in 1..Len(runs'[r].issued) :
                 runs'[r].issued[k].output_format = FormatAtStart(runs'[r])
          /\ (FinishesBulk(r) /\ runs'[r].outcome = "zip")
                 => resultInfo'.format
                        = ToUpperCase(FormatAtStart(runs'[r]))]_vars

\* the bulk run of activation r ends in this step with no item converted
FinishesAllFailed(r) ==
    /\ FinishesBulk(r)
    /\ runs'[r].outcome = "none converted"

\* C26: when a bulk run ends with every item failed, no archive is on
\* offer: the result container is hidden and the download button serves no
\* archive, whatever runs came before on the same selection.
C26_AllFailedOffersNoArchive ==
    [][\A r \in RunIds : FinishesAllFailed(r) =>
          /\ resultHidden'
          /\ download'.kind # "zip"]_vars

\* no activation of convertImage is under way
NoConversion == \A r \in RunIds : ~Live(runs[r])

\* C27: whenever no conversion is in progress the convert button is enabled
\* if and only if at least one file is selected.
C27_ButtonEnabledIffFilesSelected ==
    NoConversion => (~convertBtnDisabled <=> currentFiles # <<>>)

\* C28: from the start of a conversion by convertImage to its end the
\* convert button is disabled, and no second activation of convertImage
\* starts a conversion meanwhile.
C28_ButtonDisabledWhileConverting ==
    /\ [](~NoConversion => convertBtnDisabled)
    /\ [][~NoConversion => nStarts' = nStarts]_vars

\* C29: every result the loop of a bulk run accepts can be encoded: a run
\* that ends with at least one result ends with the archive of its results
\* on offer, never with createZipFromBase64Images failing after the loop.
C29_AcceptedResultsCanBeEncoded ==
    [][\A r \in RunIds :
          (FinishesBulk(r) /\ runs'[r].convertedImages # <<>>) =>
              /\ runs'[r].outcome = "zip"
              /\ download'.kind = "zip"
              /\ download'.blob.ok
              /\ EntryCount(download'.blob) = Len(runs'[r].convertedImages)
      ]_vars

\* handleFiles is called in this step with a list that holds no valid image
\* and shows its error (no other handler shows this message)
RejectsFiles ==
    /\ nEvents' = nEvents + 1
    /\ toast' # toast
    /\ toast'.message = "Please select valid image files"

\* C30: handleFiles with a list that holds no valid image file reports the
\* error and changes nothing else: not the selection, the selected format,
\* the visibility of the result container or the state of the convert
\* button.
C30_InvalidDropChangesNothing ==
    [][RejectsFiles =>
          /\ currentFiles' = currentFiles
          /\ selectedFormat' = selectedFormat
          /\ resultHidden' = resultHidden
          /\ convertBtnDisabled' = convertBtnDisabled
          /\ convertBtnLabel' = convertBtnLabel
          /\ fileListHidden' = fileListHidden
          /\ previewHidden' = previewHidden
          /\ rows' = rows
          /\ header' = header
          /\ download' = download
          /\ resultInfo' = resultInfo
          /\ runs' = runs]_vars

\* a list without a valid image was dropped on a page that shows the
\* result of a bulk run
C30_Witness ==
    /\ toast.message = "Please select valid image files"
    /\ currentFiles # <<>>
    /\ ~resultHidden
    /\ download.kind = "zip"

====
